---------------------------- MODULE Spec2Model ----------------------------
(***************************************************************************)
(* Model of src/main.py: the Cloud Function process_file_v2 and its        *)
(* helpers call_blacklist_lookup_batched / call_blacklist_lookup.          *)
(*                                                                         *)
(* One behaviour is one invocation of process_file_v2 on one input file.   *)
(*                                                                         *)
(* Strings.  A Python str is modelled as a sequence of tokens.  The token  *)
(* " " is one whitespace character, the token "K" stands for a run of      *)
(* BlockLen decimal digits, every other token is one plain ASCII           *)
(* character.  All of them are written unescaped by json.dumps, so the     *)
(* encoded size of a string is the sum of its token lengths plus the two   *)
(* quotes.  A CSV cell is a string, a row is a sequence of cells, and the  *)
(* empty cell is <<>>.                                                     *)
(*                                                                         *)
(* Python indexes are 0-based, TLA+ sequences 1-based: the cell row[idx]   *)
(* of the source is row[idx + 1] here.                                     *)
(***************************************************************************)
EXTENDS Integers, Sequences, FiniteSets

VARIABLES
    decoded_file,     \* the downloaded file: [eol, lines]                (l.70-75)
    has_header,       \* config "hasHeaderRow"                            (l.64)
    phone_indexes,    \* config "phoneColumnIndexes", 0-based             (l.63)
    pc,               \* position of process_file_v2, or how it ended
    phone_set,        \* unique stripped phones                           (l.92-98)
    phone_list,       \* parameter of call_blacklist_lookup_batched       (l.260)
    batches,          \* local of call_blacklist_lookup_batched           (l.266)
    batch_i,          \* number of batches already looked up              (l.282)
    suppressed,       \* local accumulator of the batched lookup          (l.281)
    failed_batch,     \* number of the batch whose lookup raised, 0 if none (l.303)
    suppressed_set,   \* aggregated suppressed numbers                    (l.109)
    row_i,            \* number of data rows already processed            (l.165)
    clean_rows,       \* rows of the clean file                           (l.155)
    suppressed_dict,  \* insertion-ordered dict lead_id -> blacklisted row (l.156)
    output_bucket,    \* blobs uploaded to OUTPUT_BUCKET: {[name, content]}
    status_log,       \* "status.stage" values written by this run, in order
    outputFiles,      \* "outputFiles" written to the config document (0 or 1)
    results           \* "results" written to the config document (0 or 1)

vars == << decoded_file, has_header, phone_indexes, pc, phone_set, phone_list,
           batches, batch_i, suppressed, failed_batch, suppressed_set, row_i,
           clean_rows,
           suppressed_dict, output_bucket, status_log, outputFiles, results >>

-----------------------------------------------------------------------------
(* Bounds of the model and program constants *)

\* At most this many data rows in an input file.
MaxRows == 2

\* Number of digits the token "K" stands for (half of the payload ceiling).
BlockLen == 524288

MAX_PAYLOAD_SIZE == 1048576

-----------------------------------------------------------------------------
(* Strings *)

IsSpace(c) == c = " "

RECURSIVE lstrip(_)
lstrip(s) == IF s # <<>> /\ IsSpace(Head(s)) THEN lstrip(Tail(s)) ELSE s

RECURSIVE rstrip(_)
rstrip(s) ==
    IF s # <<>> /\ IsSpace(s[Len(s)]) THEN rstrip(SubSeq(s, 1, Len(s) - 1)) ELSE s

\* str.strip(): leading and trailing whitespace removed.
strip(s) == rstrip(lstrip(s))

CharLen(c) == IF c = "K" THEN BlockLen ELSE 1

RECURSIVE StrLen(_)
StrLen(s) == IF s = <<>> THEN 0 ELSE CharLen(Head(s)) + StrLen(Tail(s))

\* len(json.dumps(s)) for a str s: the characters between two quotes.
JsonStrLen(s) == StrLen(s) + 2

RECURSIVE JsonItemsLen(_)
JsonItemsLen(batch) ==
    IF batch = <<>> THEN 0
    ELSE JsonStrLen(Head(batch))
         + (IF Len(batch) > 1 THEN 2 ELSE 0)      \* the separator ", "
         + JsonItemsLen(Tail(batch))

\* len(json.dumps({"phones": batch}).encode('utf-8')):
\* 12 bytes for {"phones": [ and 2 for ]} around the items.
PayloadSize(batch) == 12 + JsonItemsLen(batch) + 2

-----------------------------------------------------------------------------
(* call_blacklist_lookup_batched: building the batches (l.266-279) *)

\* Faulty variant of OverLimit: only the phone just appended is measured.
OverLimitLastPhoneOnly(batch) ==
    PayloadSize(<< batch[Len(batch)] >>) > MAX_PAYLOAD_SIZE

\* l.273: the payload is over the limit.
OverLimit(batch) == PayloadSize(batch) > MAX_PAYLOAD_SIZE

\* Faulty variant of RestartBatch: the phone that overflowed is lost.
RestartBatchEmpty(phone) == <<>>

\* l.277: the batch that is open after an overflow.
RestartBatch(phone) == << phone >>

\* l.274-276: the open batch without the phone just appended is closed,
\* unless it is empty.
CloseBatch(bs, popped) == IF popped # <<>> THEN Append(bs, popped) ELSE bs

\* The loop of l.268-277 from phone number i on, then l.278-279.
\* bs is `batches`, cur is `current_batch`.
RECURSIVE BatchLoop(_, _, _, _)
BatchLoop(list, i, bs, cur) ==
    IF i > Len(list)
    THEN IF cur # <<>> THEN Append(bs, cur) ELSE bs
    ELSE LET phone == list[i]
             grown == Append(cur, phone)
         IN  IF OverLimit(grown)
             THEN BatchLoop(list, i + 1, CloseBatch(bs, cur), RestartBatch(phone))
             ELSE BatchLoop(list, i + 1, bs, grown)

BuildBatches(list) == BatchLoop(list, 1, <<>>, <<>>)

\* list(phone_set) (l.99): some ordering of the set; the iteration order of a
\* Python set of str is not fixed.
Orderings(S) ==
    { l \in [1..Cardinality(S) -> S] : \A i, j \in DOMAIN l : l[i] = l[j] => i = j }

SeqToSet(s) == { s[i] : i \in DOMAIN s }

-----------------------------------------------------------------------------
(* Rows (l.83-98, l.165-195) *)

\* `for idx in phone_indexes: if idx < len(row)`: the 0-based column idx is a
\* configured phone column that is in range for the row.
InRange(idx, row) == idx < Len(row)

PhoneIdx == SeqToSet(phone_indexes)

\* rows = list(csv.reader(decoded_file.splitlines())) (l.76-78)
rows == decoded_file.lines

\* l.84-89.  None is modelled as the empty row: the source only ever tests
\* `if header:` (l.159), which is false for both.
header == IF has_header /\ rows # <<>> THEN rows[1] ELSE <<>>

data_rows == IF has_header /\ rows # <<>> THEN Tail(rows) ELSE rows

\* l.92-98: the unique non-empty stripped values of the in-range phone cells.
RowPhones(row) ==
    { strip(row[idx + 1]) : idx \in { i \in PhoneIdx : InRange(i, row) } } \ { <<>> }

ExtractPhones == UNION { RowPhones(data_rows[r]) : r \in DOMAIN data_rows }

\* l.172-173: the stripped cell is in the suppressed set.
IsSuppressed(cell, S) == strip(cell) \in S

\* Faulty variant of CleanCell: the cell is compared without strip().
CleanCellUntrimmed(cell, S) == IF cell \in S THEN <<>> ELSE cell

\* l.174-175: a phone cell of the clean row.
CleanCell(cell, S) == IF IsSuppressed(cell, S) THEN <<>> ELSE cell

\* l.176-181: a phone cell of the blacklisted row.
SuppressedCell(cell, S) == IF IsSuppressed(cell, S) THEN strip(cell) ELSE <<>>

\* l.166, l.170-175
CleanRow(row, S) ==
    [ j \in 1..Len(row) |->
        IF (j - 1) \in PhoneIdx THEN CleanCell(row[j], S) ELSE row[j] ]

\* l.167, l.170-181
SuppressedRow(row, S) ==
    [ j \in 1..Len(row) |->
        IF (j - 1) \in PhoneIdx THEN SuppressedCell(row[j], S) ELSE row[j] ]

\* l.168, l.178
RowHasSuppressed(row, S) ==
    \E idx \in PhoneIdx : InRange(idx, row) /\ IsSuppressed(row[idx + 1], S)

\* l.186.  None cannot be confused with a cell: a cell is a sequence.
None == << "None" >>
LeadId(row) == IF Len(row) > 0 THEN row[1] ELSE None

\* suppressed_dict (l.156) is a sequence of [key, val] in insertion order.
DictKeys(d) == { d[k].key : k \in DOMAIN d }
DictPos(d, key) == CHOOSE k \in DOMAIN d : d[k].key = key
DictGet(d, key) == d[DictPos(d, key)].val
\* Faulty variant of DictSet: every assignment adds an entry.
DictSetAppend(d, key, val) == Append(d, [ key |-> key, val |-> val ])

DictSet(d, key, val) ==
    IF key \in DictKeys(d)
    THEN [ d EXCEPT ![DictPos(d, key)].val = val ]
    ELSE Append(d, [ key |-> key, val |-> val ])
DictValues(d) == [ k \in DOMAIN d |-> d[k].val ]

\* Faulty variant of MayFill: a filled column is written again.
MayFillAlways(existing_row, idx) == TRUE

\* l.191: the guard under which the merge writes column idx.  Reading
\* existing_row[idx] needs idx < len(existing_row).
MayFill(existing_row, idx) == existing_row[idx + 1] = <<>>

\* l.189-191: `idx < len(row) and not existing_row[idx]` reads existing_row[idx]
\* for every idx in range of the NEW row: an IndexError when the grouped row
\* is shorter.
MergeRaises(existing_row, row) ==
    \E idx \in PhoneIdx : InRange(idx, row) /\ ~ (idx < Len(existing_row))

\* l.189-192
MergeRows(existing_row, row, suppressed_row) ==
    [ j \in 1..Len(existing_row) |->
        IF /\ (j - 1) \in PhoneIdx
           /\ InRange(j - 1, row)
           /\ MayFill(existing_row, j - 1)
           /\ suppressed_row[j] # <<>>
        THEN suppressed_row[j]
        ELSE existing_row[j] ]

-----------------------------------------------------------------------------
(* Output files (l.197-216, l.133) *)

\* csv.writer: one line per row, each ended by "\r\n".
WriteCsv(rs) == [ eol |-> "\r\n", lines |-> rs ]

\* l.159-160, l.182, l.204-208
CleanCsvContent == WriteCsv(clean_rows)

\* l.161-163, l.198-201, l.210-216
SuppressedCsvContent ==
    WriteCsv((IF header # <<>> THEN << header >> ELSE <<>>)
             \o DictValues(suppressed_dict))

Blob(name) == { b \in output_bucket : b.name = name }

\* Faulty variant of OriginalContent: the parsed rows are written out again.
ReRenderedContent == WriteCsv(rows)

\* l.133: the special case uploads decoded_file itself.
OriginalContent == decoded_file

\* Blob names (l.129-131, l.225-230) and the paths recorded for them.
CleanBlobName == "clean"
SuppressedBlobName == "blacklisted"

-----------------------------------------------------------------------------
(* Input files *)

Prefixes(r) == { SubSeq(r, 1, k) : k \in 0..Len(r) }

\* Rows of ordinary width-ragged files: a lead id, then up to two phone cells.
SmallRows ==
    UNION { Prefixes(<< lead, p, q >>) :
              lead \in { << "a" >>, << "b" >> },
              p \in { << "1" >>, << " ", "2" >> },
              q \in { <<>>, << "2" >> } }

\* Rows holding phones about as long as the payload ceiling.
LargeRows ==
    { << << "a" >>, << "K" >>, << "K", "1" >> >>,
      << << "b" >>, << "1" >>, << "K", "K" >> >> }

SeqsUpTo(S, n) == UNION { [1..k -> S] : k \in 0..n }

\* The data rows of an input file: at most MaxRows of them.
DataRowSeqs == SeqsUpTo(SmallRows, MaxRows) \cup SeqsUpTo(LargeRows, MaxRows)

\* The first line of a file that has a header row: blank, or column names.
HeaderRows == { <<>>, << << "i", "d" >>, << "p" >>, << "q" >> >> }

\* The lines of an input file.  A file may be empty whatever the configuration
\* says about its header.
InputLines(hh) ==
    IF hh
    THEN { <<>> } \cup { << h >> \o d : h \in HeaderRows, d \in DataRowSeqs }
    ELSE DataRowSeqs

PhoneColumnConfigs == { << 1 >>, << 1, 2 >> }

-----------------------------------------------------------------------------
(* process_file_v2 *)

Init ==
    /\ has_header \in BOOLEAN
    /\ decoded_file \in [ eol : { "\n" }, lines : InputLines(has_header) ]
    /\ phone_indexes \in PhoneColumnConfigs
    /\ pc = "start"
    /\ phone_set = {}
    /\ phone_list = <<>>
    /\ batches = <<>>
    /\ batch_i = 0
    /\ suppressed = {}
    /\ failed_batch = 0
    /\ suppressed_set = {}
    /\ row_i = 0
    /\ clean_rows = <<>>
    /\ suppressed_dict = <<>>
    /\ output_bucket = {}
    /\ status_log = <<>>
    /\ outputFiles = <<>>
    /\ results = <<>>

input == << decoded_file, has_header, phone_indexes >>
lookup_frame == << phone_list, batches, batch_i, suppressed >>
row_loop == << row_i, clean_rows, suppressed_dict >>
config_doc == << status_log, outputFiles, results >>

\* l.32-37, l.44-46, l.57-59, l.69-73: the early returns before the file is parsed.
AbortBeforeParse ==
    /\ pc = "start"
    /\ \E why \in { "abort_message", "abort_config", "abort_download" } : pc' = why
    /\ UNCHANGED << input, phone_set, lookup_frame, failed_batch, suppressed_set,
                    row_loop, output_bucket, config_doc >>

\* l.79-81
EmptyFile ==
    /\ pc = "start"
    /\ rows = <<>>
    /\ pc' = "abort_empty"
    /\ UNCHANGED << input, phone_set, lookup_frame, failed_batch, suppressed_set,
                    row_loop, output_bucket, config_doc >>

\* l.83-104 and l.266-281: the phones are extracted, listed in some order and
\* batched.
ExtractAndBatch ==
    /\ pc = "start"
    /\ rows # <<>>
    /\ phone_set' = ExtractPhones
    /\ phone_list' \in Orderings(ExtractPhones)
    /\ batches' = BuildBatches(phone_list')
    /\ batch_i' = 0
    /\ suppressed' = {}
    /\ pc' = "api"
    /\ UNCHANGED << input, failed_batch, suppressed_set, row_loop, output_bucket,
                    config_doc >>

\* l.282-284 with l.301-306: the next batch is looked up and answered 200 with
\* some of its phones listed under "supression".
LookupOk ==
    /\ pc = "api"
    /\ batch_i < Len(batches)
    /\ \E suppressed_batch \in SUBSET SeqToSet(batches[batch_i + 1]) :
          suppressed' = suppressed \cup suppressed_batch
    /\ batch_i' = batch_i + 1
    /\ UNCHANGED << input, pc, phone_set, phone_list, batches, failed_batch,
                    suppressed_set, row_loop, output_bucket, config_doc >>

\* Faulty variant of OnLookupError: the failed batch is tried again.
OnLookupErrorRetry == "api"

\* l.105-107: where process_file_v2 goes when the lookup raised.
OnLookupError == "abort_api"

\* l.302-303 with l.105-107: a batch is answered with another status than 200;
\* the exception leaves call_blacklist_lookup_batched and is caught.
LookupFails ==
    /\ pc = "api"
    /\ batch_i < Len(batches)
    /\ failed_batch' = batch_i + 1
    /\ pc' = OnLookupError
    /\ IF pc' = "api"
       THEN UNCHANGED lookup_frame
       ELSE /\ phone_list' = <<>>
            /\ batches' = <<>>
            /\ batch_i' = 0
            /\ suppressed' = {}
    /\ UNCHANGED << input, phone_set, suppressed_set, row_loop, output_bucket,
                    config_doc >>

\* l.285 and l.109-163: the batched lookup returns, its frame is gone, the
\* stage API_CALLED is written and the row loop is set up.
MarkApiCalled ==
    /\ pc = "api"
    /\ batch_i = Len(batches)
    /\ suppressed_set' = suppressed
    /\ phone_list' = <<>>
    /\ batches' = <<>>
    /\ batch_i' = 0
    /\ suppressed' = {}
    /\ status_log' = Append(status_log, "API_CALLED")
    /\ IF suppressed_set' = {}
       THEN pc' = "original" /\ clean_rows' = clean_rows
       ELSE /\ pc' = "rows"
            /\ clean_rows' = IF header # <<>> THEN << header >> ELSE <<>>
    /\ UNCHANGED << input, phone_set, failed_batch, row_i, suppressed_dict,
                    output_bucket, outputFiles, results >>

\* l.113, l.136, l.244: config_ref.update raises.
StatusWriteFails ==
    /\ \/ pc = "api" /\ batch_i = Len(batches)
       \/ pc \in { "finish_original", "finish" }
    /\ pc' = "raise_status"
    /\ UNCHANGED << input, phone_set, lookup_frame, failed_batch, suppressed_set,
                    row_loop, output_bucket, config_doc >>

\* l.123-126, l.219-222: OUTPUT_BUCKET is not set.
NoOutputBucket ==
    /\ \/ pc = "original"
       \/ pc = "rows" /\ row_i = Len(data_rows)
    /\ pc' = "abort_no_bucket"
    /\ UNCHANGED << input, phone_set, lookup_frame, failed_batch, suppressed_set,
                    row_loop, output_bucket, config_doc >>

\* Faulty variant of OnUploadError: the error is swallowed.
OnUploadErrorSwallowed == "finish"

\* l.133, l.235, l.236: where process_file_v2 is after an upload raised.
OnUploadError == "raise_upload"

\* l.127-133
UploadOriginal ==
    /\ pc = "original"
    /\ \/ /\ output_bucket' =
               output_bucket \cup { [ name |-> CleanBlobName, content |-> OriginalContent ] }
          /\ pc' = "finish_original"
       \/ /\ pc' = OnUploadError
          /\ UNCHANGED output_bucket
    /\ UNCHANGED << input, phone_set, lookup_frame, failed_batch, suppressed_set,
                    row_loop, config_doc >>

\* l.136-152
FinishOriginal ==
    /\ pc = "finish_original"
    /\ results' = << [ total |-> Cardinality(phone_set),
                       clean |-> Cardinality(phone_set),
                       dnc |-> 0 ] >>
    /\ outputFiles' = << [ cleanFilePath |-> CleanBlobName,
                           blacklistedFilePath |-> "" ] >>
    /\ status_log' = Append(status_log, "DONE")
    /\ pc' = "done"
    /\ UNCHANGED << input, phone_set, lookup_frame, failed_batch, suppressed_set,
                    row_loop, output_bucket >>

\* l.165-195: one iteration of the row loop.
ProcessRow ==
    /\ pc = "rows"
    /\ row_i < Len(data_rows)
    /\ LET row == data_rows[row_i + 1]
           clean_row == CleanRow(row, suppressed_set)
           suppressed_row == SuppressedRow(row, suppressed_set)
           lead_id == LeadId(row)
       IN  IF /\ RowHasSuppressed(row, suppressed_set)
              /\ lead_id \in DictKeys(suppressed_dict)
              /\ MergeRaises(DictGet(suppressed_dict, lead_id), row)
           THEN /\ pc' = "raise_IndexError"
                /\ UNCHANGED row_loop
           ELSE /\ pc' = pc
                /\ row_i' = row_i + 1
                /\ clean_rows' = Append(clean_rows, clean_row)
                /\ suppressed_dict' =
                     IF ~ RowHasSuppressed(row, suppressed_set)
                     THEN suppressed_dict
                     ELSE IF lead_id \in DictKeys(suppressed_dict)
                     THEN DictSet(suppressed_dict, lead_id,
                                  MergeRows(DictGet(suppressed_dict, lead_id),
                                            row, suppressed_row))
                     ELSE DictSet(suppressed_dict, lead_id, suppressed_row)
    /\ UNCHANGED << input, phone_set, lookup_frame, failed_batch, suppressed_set,
                    output_bucket, config_doc >>

\* l.197-208 and l.223-235
UploadClean ==
    /\ pc = "rows"
    /\ row_i = Len(data_rows)
    /\ \/ /\ output_bucket' =
               output_bucket \cup { [ name |-> CleanBlobName, content |-> CleanCsvContent ] }
          /\ pc' = "upload_suppressed"
       \/ /\ pc' = OnUploadError
          /\ UNCHANGED output_bucket
    /\ UNCHANGED << input, phone_set, lookup_frame, failed_batch, suppressed_set,
                    row_loop, config_doc >>

\* l.210-216 and l.236
UploadSuppressed ==
    /\ pc = "upload_suppressed"
    /\ \/ /\ output_bucket' =
               output_bucket \cup { [ name |-> SuppressedBlobName,
                                      content |-> SuppressedCsvContent ] }
          /\ pc' = "finish"
       \/ /\ pc' = OnUploadError
          /\ UNCHANGED output_bucket
    /\ UNCHANGED << input, phone_set, lookup_frame, failed_batch, suppressed_set,
                    row_loop, config_doc >>

\* l.238-258
Finish ==
    /\ pc = "finish"
    /\ results' = << [ total |-> Cardinality(phone_set),
                       clean |-> Cardinality(phone_set) - Cardinality(suppressed_set),
                       dnc |-> Cardinality(suppressed_set) ] >>
    /\ outputFiles' = << [ cleanFilePath |-> CleanBlobName,
                           blacklistedFilePath |-> SuppressedBlobName ] >>
    /\ status_log' = Append(status_log, "DONE")
    /\ pc' = "done"
    /\ UNCHANGED << input, phone_set, lookup_frame, failed_batch, suppressed_set,
                    row_loop, output_bucket >>

Next ==
    \/ AbortBeforeParse
    \/ EmptyFile
    \/ ExtractAndBatch
    \/ LookupOk
    \/ LookupFails
    \/ MarkApiCalled
    \/ StatusWriteFails
    \/ NoOutputBucket
    \/ UploadOriginal
    \/ FinishOriginal
    \/ ProcessRow
    \/ UploadClean
    \/ UploadSuppressed
    \/ Finish

Spec == Init /\ [][Next]_vars

-----------------------------------------------------------------------------
(* Properties *)

RECURSIVE Concat(_)
Concat(ss) == IF ss = <<>> THEN <<>> ELSE Head(ss) \o Concat(Tail(ss))

HeaderLines == IF header # <<>> THEN << header >> ELSE <<>>

\* The data rows of an output file: its lines after the header line, if any.
DataPart(content) == SubSeq(content.lines, Len(HeaderLines) + 1, Len(content.lines))

IsPhoneCell(row, j) == (j - 1) \in PhoneIdx /\ j <= Len(row)

\* C1: the batches are an ordered partition of the phone list: concatenated
\* in order they give back the list, and no batch is empty.
C1_BatchesPartition ==
    pc = "api" =>
        /\ Concat(batches) = phone_list
        /\ \A i \in DOMAIN batches : batches[i] # <<>>

C1_Witness ==
    /\ pc = "api"
    /\ Len(batches) >= 2
    /\ \E i \in DOMAIN batches : Len(batches[i]) >= 2

ExpectedClean(row, Hit(_)) ==
    [ j \in 1..Len(row) |->
        IF IsPhoneCell(row, j) /\ Hit(row[j]) THEN <<>> ELSE row[j] ]

CleanOutputIs(Hit(_)) ==
    suppressed_set # {} =>
        /\ Len(clean_rows) = Len(HeaderLines) + row_i
        /\ \A r \in 1..row_i :
              clean_rows[Len(HeaderLines) + r] = ExpectedClean(data_rows[r], Hit)
        /\ \A b \in Blob(CleanBlobName) :
              /\ Len(DataPart(b.content)) = Len(data_rows)
              /\ \A r \in DOMAIN data_rows :
                    DataPart(b.content)[r] = ExpectedClean(data_rows[r], Hit)

RawInSuppressedSet(cell) == cell \in suppressed_set
TrimmedInSuppressedSet(cell) == strip(cell) \in suppressed_set

\* C3 as stated: in the clean output every data row appears once, in input
\* order, a phone cell is empty if its value (the cell as it stands in the
\* input) is in the suppressed set, and every other cell is as in the input.
C3_CleanByCellValue == CleanOutputIs(RawInSuppressedSet)

\* C3 amended: in the clean output every data row appears once, in input
\* order, a phone cell is empty if its whitespace-trimmed value is in the
\* suppressed set, and every other cell is exactly as in the input.
C3_CleanByTrimmedValue == CleanOutputIs(TrimmedInSuppressedSet)

C3_Witness ==
    /\ pc = "done"
    /\ Blob(CleanBlobName) # {}
    /\ \E r \in DOMAIN data_rows : \E j \in DOMAIN data_rows[r] :
          /\ IsPhoneCell(data_rows[r], j)
          /\ data_rows[r][j] # strip(data_rows[r][j])
          /\ strip(data_rows[r][j]) \in suppressed_set
    /\ \E r \in DOMAIN data_rows : \E j \in DOMAIN data_rows[r] :
          /\ IsPhoneCell(data_rows[r], j)
          /\ data_rows[r][j] # <<>>
          /\ strip(data_rows[r][j]) \notin suppressed_set

\* C4: a phone cell of the input is in the blacklisted output iff its
\* (trimmed) value is in the suppressed set: every suppressed phone cell of
\* every input row is in the row of its lead at its own column, and every
\* filled phone cell of the blacklisted output is a suppressed phone.
C4_BlacklistedHoldsEverySuppressedCell ==
    \A b \in Blob(SuppressedBlobName) :
        LET out == DataPart(b.content)
        IN  /\ \A r \in DOMAIN data_rows : \A j \in DOMAIN data_rows[r] :
                  ( /\ IsPhoneCell(data_rows[r], j)
                    /\ strip(data_rows[r][j]) \in suppressed_set )
                  => \E o \in DOMAIN out :
                        /\ out[o][1] = data_rows[r][1]
                        /\ j <= Len(out[o])
                        /\ out[o][j] = strip(data_rows[r][j])
            /\ \A o \in DOMAIN out : \A j \in DOMAIN out[o] :
                  IsPhoneCell(out[o], j) /\ out[o][j] # <<>>
                  => out[o][j] \in suppressed_set

\* C5: once a phone column of a lead's grouped blacklisted row is filled, no
\* step changes or clears it; a step changes a phone column of a grouped row
\* only if the column was empty.
C5_MonotonicFill ==
    [][ \A k \in DOMAIN suppressed_dict :
          /\ k \in DOMAIN suppressed_dict'
          /\ suppressed_dict'[k].key = suppressed_dict[k].key
          /\ Len(suppressed_dict'[k].val) = Len(suppressed_dict[k].val)
          /\ \A j \in DOMAIN suppressed_dict[k].val :
                ( /\ (j - 1) \in PhoneIdx
                  /\ suppressed_dict'[k].val[j] # suppressed_dict[k].val[j] )
                => suppressed_dict[k].val[j] = <<>> ]_vars

\* A lead's grouped row holds a phone that a later row of the same lead filled
\* in, and a phone that a later row of the same lead would have replaced.
C5_Witness ==
    \E k \in DOMAIN suppressed_dict :
        \E r \in 1..row_i : \E i, j \in DOMAIN suppressed_dict[k].val :
            LET val == suppressed_dict[k].val
                first == CHOOSE f \in 1..row_i :
                            /\ LeadId(data_rows[f]) = suppressed_dict[k].key
                            /\ \A g \in 1..(f - 1) :
                                  LeadId(data_rows[g]) # suppressed_dict[k].key
                row == data_rows[r]
            IN  /\ r > first
                /\ LeadId(row) = suppressed_dict[k].key
                /\ IsPhoneCell(row, i) /\ IsPhoneCell(row, j)
                /\ IsPhoneCell(data_rows[first], i) /\ IsPhoneCell(data_rows[first], j)
                /\ strip(data_rows[first][i]) \notin suppressed_set
                /\ strip(row[i]) \in suppressed_set
                /\ val[i] = strip(row[i])
                /\ strip(data_rows[first][j]) \in suppressed_set
                /\ strip(row[j]) \in suppressed_set
                /\ strip(row[j]) # strip(data_rows[first][j])
                /\ val[j] = strip(data_rows[first][j])

\* The lead identities that have a suppressed phone cell in the input.
SuppressedLeads ==
    { LeadId(data_rows[r]) :
        r \in { q \in DOMAIN data_rows :
                  \E j \in DOMAIN data_rows[q] :
                      /\ IsPhoneCell(data_rows[q], j)
                      /\ strip(data_rows[q][j]) \in suppressed_set } }

\* C6: the blacklisted output holds exactly one data row for each lead
\* identity that has a suppressed phone cell in the input, and no other row.
C6_OneRowPerSuppressedLead ==
    \A b \in Blob(SuppressedBlobName) :
        LET out == DataPart(b.content)
        IN  /\ Len(out) = Cardinality(SuppressedLeads)
            /\ { out[o][1] : o \in DOMAIN out } = SuppressedLeads
            /\ \A o, q \in DOMAIN out : out[o][1] = out[q][1] => o = q

C6_Witness ==
    /\ Blob(SuppressedBlobName) # {}
    /\ Cardinality(SuppressedLeads) = 1
    /\ Len(data_rows) = 2
    /\ \A r \in DOMAIN data_rows : RowHasSuppressed(data_rows[r], suppressed_set)

\* C7: when the aggregated suppressed set is empty, the clean output is the
\* downloaded file itself, no blacklisted file is uploaded, and the recorded
\* blacklisted path is empty.
C7_EmptySuppressedPassesThrough ==
    suppressed_set = {} =>
        /\ Blob(SuppressedBlobName) = {}
        /\ \A b \in Blob(CleanBlobName) : b.content = decoded_file
        /\ \A i \in DOMAIN outputFiles :
              /\ outputFiles[i].blacklistedFilePath = ""
              /\ Blob(outputFiles[i].cleanFilePath) # {}

C7_Witness ==
    /\ pc = "done"
    /\ suppressed_set = {}
    /\ phone_set # {}
    /\ has_header
    /\ Blob(CleanBlobName) # {}
    /\ outputFiles # <<>>

Stages == SeqToSet(status_log)

\* C8: DONE is written only after API_CALLED and after every output file of
\* the run is uploaded; a run that failed to upload a file, or that found no
\* output bucket configured, has not written DONE.
C8_DoneOnlyAfterOutputs ==
    /\ "DONE" \in Stages =>
          /\ status_log = << "API_CALLED", "DONE" >>
          /\ outputFiles # <<>>
          /\ Blob(CleanBlobName) # {}
          /\ suppressed_set # {} => Blob(SuppressedBlobName) # {}
          /\ \A i \in DOMAIN outputFiles :
                \A path \in { outputFiles[i].cleanFilePath,
                              outputFiles[i].blacklistedFilePath } \ { "" } :
                    Blob(path) # {}
    /\ pc \in { "raise_upload", "abort_no_bucket" }
          => "DONE" \notin Stages

C8_Witness ==
    /\ status_log = << "API_CALLED", "DONE" >>
    /\ Blob(CleanBlobName) # {}
    /\ Blob(SuppressedBlobName) # {}
    /\ has_header

\* C9: when the lookup of a batch is answered with a status other than 200,
\* the job ends there: nothing of the batches already answered is kept, no
\* file is uploaded and no status is written.
C9_LookupFailureAborts ==
    failed_batch # 0 =>
        /\ pc = "abort_api"
        /\ suppressed = {} /\ suppressed_set = {}
        /\ output_bucket = {}
        /\ status_log = <<>> /\ outputFiles = <<>> /\ results = <<>>

C9_Witness ==
    /\ failed_batch >= 2
    /\ pc = "abort_api"

\* C10: no step raises on a phone column that is out of range for a row.
C10_NoIndexError == pc # "raise_IndexError"

=============================================================================
